---- MODULE Spec2Model ----
(***************************************************************************)
(* Model of the three icon scripts of HealthGeneratorApp:                  *)
(*   create_icons.py            create_app_icon            + main          *)
(*   create_beautiful_icons.py  create_beautiful_app_icon  + main          *)
(*   create_solid_icons.py      create_solid_app_icon      + main          *)
(*                                                                         *)
(* A canvas is kept at the pixels Probes(size): the four corners, the      *)
(* centre and the middle of the top and bottom rows.  Every Pillow         *)
(* drawing call of the scripts is applied to those pixels as Pillow        *)
(* rasterises it (inclusive boxes, the quarter-ellipse outline of Draw.c,  *)
(* vertices cut to integers by polygon and ellipse).                       *)
(*                                                                         *)
(* Floating point: y / size and the interpolation are computed exactly     *)
(* (rationals, then truncated); on the first and the last row of every     *)
(* catalog size this equals the IEEE double result.  sin and cos are       *)
(* tabulated to 1/Unit.  The polygon fill is the even-odd rule plus the    *)
(* edges; Pillow's scan line agrees with it for every pixel that is not    *)
(* within a pixel of an edge.                                              *)
(***************************************************************************)
EXTENDS Integers, Sequences, FiniteSets, TLC

VARIABLES style, frame, dirs, files, main_pc, main_err, idx, run, fs0, prev, workers

vars == <<style, frame, dirs, files, main_pc, main_err, idx, run, fs0, prev, workers>>

-----------------------------------------------------------------------------
(* Bounds of the model *)

\* how many times a script is started on the same file system
MaxRuns == 2

\* how many loop iterations run side by side in SpecPar
MaxPar == 2

-----------------------------------------------------------------------------
(* The three scripts and their catalogs *)

APP == "create_app_icon"
BEAUTIFUL == "create_beautiful_app_icon"
SOLID == "create_solid_app_icon"

Styles == {APP, BEAUTIFUL, SOLID}

Entry(size, filename) == [size |-> size, filename |-> filename]

icon_sizes_app ==
    << Entry(40, "AppIcon-40.png"), Entry(60, "AppIcon-60.png"),
       Entry(58, "AppIcon-58.png"), Entry(87, "AppIcon-87.png"),
       Entry(80, "AppIcon-80.png"), Entry(120, "AppIcon-120.png"),
       Entry(180, "AppIcon-180.png"),
       Entry(20, "AppIcon-20.png"), Entry(40, "AppIcon-40-ipad.png"),
       Entry(29, "AppIcon-29.png"), Entry(58, "AppIcon-58-ipad.png"),
       Entry(76, "AppIcon-76.png"), Entry(152, "AppIcon-152.png"),
       Entry(167, "AppIcon-167.png"),
       Entry(154, "AppIcon-154.png"),
       Entry(1024, "AppIcon-1024.png") >>

icon_sizes_beautiful ==
    << Entry(40, "AppIcon-40.png"), Entry(60, "AppIcon-60.png"),
       Entry(58, "AppIcon-58.png"), Entry(87, "AppIcon-87.png"),
       Entry(80, "AppIcon-80.png"), Entry(120, "AppIcon-120.png"),
       Entry(180, "AppIcon-180.png"),
       Entry(20, "AppIcon-20.png"), Entry(40, "AppIcon-40-ipad.png"),
       Entry(29, "AppIcon-29.png"), Entry(58, "AppIcon-58-ipad.png"),
       Entry(76, "AppIcon-76.png"), Entry(152, "AppIcon-152.png"),
       Entry(167, "AppIcon-167.png"),
       Entry(1024, "AppIcon-1024.png") >>

icon_configs ==
    << Entry(40, "AppIcon-40.png"), Entry(60, "AppIcon-60.png"),
       Entry(58, "AppIcon-58.png"), Entry(87, "AppIcon-87.png"),
       Entry(80, "AppIcon-80.png"), Entry(120, "AppIcon-120.png"),
       Entry(180, "AppIcon-180.png"),
       Entry(20, "AppIcon-20.png"), Entry(29, "AppIcon-29.png"),
       Entry(76, "AppIcon-76.png"), Entry(152, "AppIcon-152.png"),
       Entry(167, "AppIcon-167.png"),
       Entry(1024, "AppIcon-1024.png") >>

Catalog(st) ==
    CASE st = APP -> icon_sizes_app
      [] st = BEAUTIFUL -> icon_sizes_beautiful
      [] st = SOLID -> icon_configs

\* every pixel size some catalog asks for
CatalogSizes ==
    UNION {{Catalog(st)[i].size : i \in 1..Len(Catalog(st))} : st \in Styles}

\* the sizes a render function is called with: the catalog sizes, and the
\* two kinds of invalid size (zero, negative)
CallSizes == CatalogSizes \cup {0, -1}

-----------------------------------------------------------------------------
(* Paths and the file system *)

icons_dir == <<"HealthGeneratorApp", "HealthGeneratorApp", "Resources">>

appiconset_dir == icons_dir \o <<"Assets.xcassets", "AppIcon.appiconset">>

\* os.path.join(directory, filename)
\* a join that drops the filename: every entry gets the same path
join_flat(directory, filename) == Append(directory, "AppIcon.png")

join(directory, filename) == Append(directory, filename)

dirname(path) == SubSeq(path, 1, Len(path) - 1)

\* os.makedirs(path, exist_ok=True): the directory and every missing parent;
\* without exist_ok an existing directory is a FileExistsError
makedirs_no_exist_ok(ds, path) ==
    IF path \in ds THEN [err |-> "FileExistsError", dirs |-> ds]
    ELSE [err |-> "none", dirs |-> ds \cup {SubSeq(path, 1, n) : n \in 1..Len(path)}]

makedirs(ds, path) ==
    [err |-> "none", dirs |-> ds \cup {SubSeq(path, 1, n) : n \in 1..Len(path)}]

-----------------------------------------------------------------------------
(* Integer helpers *)

Abs(n) == IF n < 0 THEN -n ELSE n

Max(a, b) == IF a >= b THEN a ELSE b

Min(a, b) == IF a <= b THEN a ELSE b

\* C's (int) cast of num/den, den > 0: towards zero
Trunc(num, den) == IF num >= 0 THEN num \div den ELSE -((-num) \div den)

\* 1/Unit is the resolution of the tabulated sin and cos values
Unit == 10 ^ 4

-----------------------------------------------------------------------------
(* Canvases *)

\* the pixels of a size x size canvas the model keeps
Probes(size) ==
    IF size <= 0 THEN {}
    ELSE { <<0, 0>>, <<size - 1, 0>>, <<0, size - 1>>, <<size - 1, size - 1>>,
           <<size \div 2, size \div 2>>,
           <<size \div 2, 0>>, <<size \div 2, size - 1>> }

NoImage == [w |-> 0, h |-> 0, mode |-> "none", px |-> <<>>]

\* Image.new(mode, (size, size), color)
ImageNew_rgba(mode, size, color) ==
    [w |-> size, h |-> size, mode |-> IF mode = "RGB" THEN "RGBA" ELSE mode,
     px |-> [p \in Probes(size) |-> color]]

ImageNew(mode, size, color) ==
    [w |-> size, h |-> size, mode |-> mode,
     px |-> [p \in Probes(size) |-> color]]

-----------------------------------------------------------------------------
(* Pillow's rasterisers, as coverage tests of one pixel (x, y) *)

\* draw.rectangle([x0, y0, x1, y1]): both corners inclusive
RectCovers(x0, y0, x1, y1, x, y) ==
    x0 <= x /\ x <= x1 /\ y0 <= y /\ y <= y1

\* Draw.c quarter_delta: how far (x, y), in half pixels from the centre, is
\* from the outline of the ellipse with axes a and b.  For a circle the
\* common factor a*a is left out, which keeps 32-bit arithmetic exact and
\* changes no comparison.
quarter_delta(a, b, x, y) ==
    IF a = b THEN Abs(x * x + y * y - a * a)
    ELSE Abs(a * a * y * y + b * b * x * x - a * a * b * b)

\* Draw.c quarter_next: the point after (cx, cy) on the outline of the
\* first quadrant, walked from (a, b % 2) to (a % 2, b)
quarter_next(a, b, cx, cy) ==
    LET d1 == quarter_delta(a, b, cx, cy + 2)
        d2 == quarter_delta(a, b, cx - 2, cy + 2)
        d3 == quarter_delta(a, b, cx - 2, cy)
    IN  IF cx > 1
        THEN IF d1 > d2
             THEN IF d2 > d3 THEN <<cx - 2, cy>> ELSE <<cx - 2, cy + 2>>
             ELSE IF d1 > d3 THEN <<cx - 2, cy>> ELSE <<cx, cy + 2>>
        ELSE <<cx, cy + 2>>

\* one step of the walk towards row yy (half pixels): stay once the row
\* or the end of the quadrant is reached
quarter_walk(a, b, p, yy) ==
    IF p[2] >= yy \/ (p[1] = a % 2 /\ p[2] = b) THEN p
    ELSE quarter_next(a, b, p[1], p[2])

\* n steps of the walk
RECURSIVE quarter_walk_n(_, _, _, _, _)
quarter_walk_n(a, b, p, yy, n) ==
    IF n <= 1 THEN quarter_walk(a, b, p, yy)
    ELSE LET q == quarter_walk_n(a, b, p, yy, n \div 2)
         IN  IF q[2] >= yy THEN q ELSE quarter_walk_n(a, b, q, yy, n - n \div 2)

\* Draw.c ellipse_next: the right end of the span of row yy, which is the
\* first outline point the walk reaches on that row; the walk has at most
\* a + b steps
RowEnd(a, b, yy) == quarter_walk_n(a, b, <<a, b % 2>>, yy, a + b + 1)[1]

\* draw.ellipse([x0, y0, x1, y1], fill): Draw.c ellipseNew, filled
EllipseCovers(x0, y0, x1, y1, x, y) ==
    LET a == x1 - x0
        b == y1 - y0
        xx == 2 * x - (x0 + x1)
        yy == 2 * y - (y0 + y1)
    IN  /\ a >= 0 /\ b >= 0
        /\ Abs(yy) <= b
        /\ Abs(xx) <= RowEnd(a, b, Abs(yy))

\* draw.rounded_rectangle([x0, y0, x1, y1], radius, fill) for a box wider
\* and higher than 2 * radius + 1 (every size of CallSizes): four quarter
\* pie slices of diameter d in the corners and three rectangles
RoundedRectCovers(x0, y0, x1, y1, radius, x, y) ==
    LET d == radius * 2
        r == d \div 2
    IN  IF d = 0 THEN RectCovers(x0, y0, x1, y1, x, y)
        ELSE \/ x <= x0 + r /\ y <= y0 + r
                /\ EllipseCovers(x0, y0, x0 + d, y0 + d, x, y)
             \/ x >= x1 - r /\ y <= y0 + r
                /\ EllipseCovers(x1 - d, y0, x1, y0 + d, x, y)
             \/ x >= x1 - r /\ y >= y1 - r
                /\ EllipseCovers(x1 - d, y1 - d, x1, y1, x, y)
             \/ x <= x0 + r /\ y >= y1 - r
                /\ EllipseCovers(x0, y1 - d, x0 + d, y1, x, y)
             \/ RectCovers(x0 + r + 1, y0, x1 - r - 1, y1, x, y)
             \/ RectCovers(x0, y0 + r + 1, x0 + r, y1 - r - 1, x, y)
             \/ RectCovers(x1 - r, y0 + r + 1, x1, y1 - r - 1, x, y)

\* the edge from p to q passes the scan line y to the right of x
EdgeCrosses(p, q, x, y) ==
    LET dy == q[2] - p[2]
        dx == q[1] - p[1]
    IN  \/ p[2] <= y /\ y < q[2] /\ (x - p[1]) * dy < (y - p[2]) * dx
        \/ q[2] <= y /\ y < p[2] /\ (x - p[1]) * dy > (y - p[2]) * dx

\* (x, y) lies on the edge from p to q, to half a pixel along its row
EdgeTouches(p, q, x, y) ==
    LET dy == q[2] - p[2]
        dx == q[1] - p[1]
    IN  IF dy = 0
        THEN y = p[2] /\ Min(p[1], q[1]) <= x /\ x <= Max(p[1], q[1])
        ELSE /\ Min(p[2], q[2]) <= y /\ y <= Max(p[2], q[2])
             /\ 2 * Abs((x - p[1]) * dy - (y - p[2]) * dx) <= Abs(dy)

\* draw.polygon(pts, fill) for integer vertices pts
PolygonCovers(pts, x, y) ==
    LET n == Len(pts)
        nxt(i) == pts[(i % n) + 1]
    IN  /\ n >= 2
        /\ \/ Cardinality({i \in 1..n : EdgeCrosses(pts[i], nxt(i), x, y)}) % 2 = 1
           \/ \E i \in 1..n : EdgeTouches(pts[i], nxt(i), x, y)

\* a drawing call paints the pixels its shape covers
Covers(shape, x, y) ==
    CASE shape.kind = "rectangle" ->
            RectCovers(shape.box[1], shape.box[2], shape.box[3], shape.box[4], x, y)
      [] shape.kind = "ellipse" ->
            EllipseCovers(shape.box[1], shape.box[2], shape.box[3], shape.box[4], x, y)
      [] shape.kind = "rounded_rectangle" ->
            RoundedRectCovers(shape.box[1], shape.box[2], shape.box[3], shape.box[4],
                              shape.radius, x, y)
      [] shape.kind = "polygon" -> PolygonCovers(shape.pts, x, y)

rectangle(x0, y0, x1, y1) == [kind |-> "rectangle", box |-> <<x0, y0, x1, y1>>]

ellipse(x0, y0, x1, y1) == [kind |-> "ellipse", box |-> <<x0, y0, x1, y1>>]

rounded_rectangle(x0, y0, x1, y1, radius) ==
    [kind |-> "rounded_rectangle", box |-> <<x0, y0, x1, y1>>, radius |-> radius]

\* fixed-point vertices (units of 1/den) cut to integers, as _draw_polygon does
polygon(fpts, den) ==
    [kind |-> "polygon",
     pts |-> [i \in 1..Len(fpts) |-> <<Trunc(fpts[i][1], den), Trunc(fpts[i][2], den)>>]]

Draw(canvas, shape, color) ==
    [canvas EXCEPT !.px = [p \in DOMAIN canvas.px |->
        IF Covers(shape, p[1], p[2]) THEN color ELSE canvas.px[p]]]

RECURSIVE DrawAll(_, _, _)
DrawAll(canvas, shapes, color) ==
    IF shapes = <<>> THEN canvas
    ELSE DrawAll(Draw(canvas, Head(shapes), color), Tail(shapes), color)

\* final_img.paste(img, mask=mask): the source where the mask is set
paste(dst, src, maskimg) ==
    [dst EXCEPT !.px = [p \in DOMAIN dst.px |->
        IF maskimg.px[p] # 0 THEN src.px[p] ELSE dst.px[p]]]

-----------------------------------------------------------------------------
(* Colours and the values each render function computes from size *)

WHITE == <<255, 255, 255>>

\* the colour the rounded-corner canvas is created with (final_img)
background(st) == IF st = BEAUTIFUL THEN <<248, 249, 250>> ELSE WHITE

heart_color == <<52, 199, 89>>

\* the first and the last colour of the gradient the loop is written for
gradient_start(st) ==
    CASE st = APP -> <<52, 199, 89>>
      [] st = BEAUTIFUL -> <<255, 255, 255>>
      [] st = SOLID -> <<100, 150, 200>>

\* int(255 * (1 - 0.1)) and int(255 * (1 - 0.05)) in the beautiful style
gradient_end(st) ==
    CASE st = APP -> <<34, 139, 34>>
      [] st = BEAUTIFUL -> <<(255 * 9) \div 10, (255 * 19) \div 20, (255 * 9) \div 10>>
      [] st = SOLID -> <<50, 100, 150>>

\* int(s * (1 - progress) + e * progress) with progress = y / size
lerp_next_row(s, e, y, size) == (s * (size - (y + 1)) + e * (y + 1)) \div size

lerp(s, e, y, size) == (s * (size - y) + e * y) \div size

\* int(255 * (1 - progress * f)) with f = 1/k (0.1 or 0.05)
fade(k, y, size) == (255 * (k * size - y)) \div (k * size)

\* the colour of row y of the gradient
row_color(st, y, size) ==
    CASE st = APP -> <<lerp(52, 34, y, size), lerp(199, 139, y, size), lerp(89, 34, y, size)>>
      [] st = BEAUTIFUL -> <<fade(10, y, size), fade(20, y, size), fade(10, y, size)>>
      [] st = SOLID -> <<lerp(100, 50, y, size), lerp(150, 100, y, size), lerp(200, 150, y, size)>>

rounded(st) == st \in {APP, BEAUTIFUL}

corner_radius(st, size) == IF st = APP THEN size \div 6 ELSE size \div 8

\* the box handed to rounded_rectangle
mask_box(size) == <<0, 0, size, size>>

\* a glyph origin a third of the way into the canvas
center_third(size) == size \div 3

center(size) == size \div 2

heart_size(size) == size \div 3

\* the divisor of the heart's scale: heart_size / 32 and heart_size / 20
heart_div(st) == IF st = APP THEN 32 ELSE 20

\* fixed-point unit of heart_points: one pixel is heart_den(st)
heart_den(st) == heart_div(st) * Unit

\* 16 sin^3 t and -(13 cos t - 5 cos 2t - 2 cos 3t - cos 4t), times Unit:
\* HeartDeg* for t = 0, 5, ..., 355 degrees (create_app_icon),
\* HeartRad* for t = 0.00, 0.05, ..., 6.25 radians (create_beautiful_app_icon);
\* Tooth* and Dot* are the cos and sin of the gear's and the dots' angles
HeartDegX ==
    << 0, 106, 838, 2774, 6401, 12077, 20000, 30192, 42493,
       56569, 71925, 87945, 103923, 119110, 132763, 144195, 152818, 158180,
       160000, 158180, 152818, 144195, 132763, 119110, 103923, 87945, 71925,
       56569, 42493, 30192, 20000, 12077, 6401, 2774, 838, 106,
       0, -106, -838, -2774, -6401, -12077, -20000, -30192, -42493,
       -56569, -71925, -87945, -103923, -119110, -132763, -144195, -152818, -158180,
       -160000, -158180, -152818, -144195, -132763, -119110, -103923, -87945, -71925,
       -56569, -42493, -30192, -20000, -12077, -6401, -2774, -838, -106 >>

HeartDegY ==
    << -50000, -51549, -56059, -63127, -72121, -82241, -92583, -102226, -110300,
       -116066, -118962, -118645, -115000, -108135, -98349, -86090, -71898, -56350,
       -40000, -23337, -6750, 9487, 25217, 40383, 55000, 69122, 82804,
       96066, 108871, 121107, 132583, 143047, 152199, 159729, 165350, 168824,
       170000, 168824, 165350, 159729, 152199, 143047, 132583, 121107, 108871,
       96066, 82804, 69122, 55000, 40383, 25217, 9487, -6750, -23337,
       -40000, -56350, -71898, -86090, -98349, -108135, -115000, -118645, -118962,
       -116066, -110300, -102226, -92583, -82241, -72121, -63127, -56059, -51549 >>

HeartRadX ==
    << 0, 20, 159, 534, 1255, 2423, 4129, 6451, 9449,
       13167, 17631, 22848, 28803, 35464, 42778, 50674, 59064, 67846,
       76904, 86111, 95332, 104427, 113255, 121673, 129546, 136741, 143138,
       148628, 153117, 156528, 158801, 159896, 159795, 158500, 156032, 152436,
       147772, 142123, 135583, 128266, 120292, 111795, 102913, 93786, 84558,
       75367, 66347, 57623, 49309, 41505, 34297, 27751, 21918, 16828,
       12490, 8895, 6015, 3801, 2191, 1105, 450, 122, 12,
       0, -32, -203, -628, -1417, -2670, -4475, -6906, -10023,
       -13865, -18456, -23798, -29875, -36650, -44067, -52053, -60517, -69353,
       -78445, -87664, -96874, -105934, -114703, -123039, -130806, -137875, -144127,
       -149455, -153768, -156991, -159068, -159963, -159661, -158166, -155505, -151724,
       -146889, -141082, -134404, -126967, -118896, -110325, -101391, -92238, -83006,
       -73835, -64856, -56193, -47958, -40249, -33148, -26720, -21010, -16046,
       -11834, -8362, -5597, -3490, -1974, -967, -375, -92, -6 >>

HeartRadY ==
    << -50000, -50511, -52030, -54511, -57882, -62043, -66871, -72225, -77947,
       -83870, -89817, -95616, -101094, -106088, -110450, -114046, -116763, -118509,
       -119218, -118849, -117383, -114828, -111215, -106595, -101036, -94624, -87453,
       -79628, -71256, -62448, -53310, -43942, -34437, -24878, -15337, -5870,
       3476, 12668, 21686, 30519, 39165, 47630, 55921, 64052, 72032,
       79872, 87574, 95139, 102556, 109810, 116874, 123715, 130291, 136554,
       142450, 147922, 152911, 157360, 161211, 164413, 166923, 168705, 169732,
       169989, 169472, 168189, 166159, 163411, 159985, 155928, 151291, 146133,
       140511, 134486, 128112, 121441, 114521, 107390, 100079, 92611, 84999,
       77251, 69365, 61335, 53151, 44803, 36278, 27570, 18674, 9595,
       349, -9042, -18540, -28094, -37643, -47112, -56413, -65452, -74126,
       -82326, -89943, -96870, -103005, -108257, -112546, -115808, -117998, -119095,
       -119099, -118035, -115953, -112930, -109063, -104472, -99298, -93693, -87825,
       -81866, -75992, -70376, -65181, -60562, -56655, -53573, -51409, -50226 >>

ToothCos ==
    << 10000, 7071, 0, -7071, -10000, -7071, 0, 7071 >>

ToothSin ==
    << 0, 7071, 10000, 7071, 0, -7071, -10000, -7071 >>

ToothCos1 ==
    << 9801, 8335, 1987, -5525, -9801, -8335, -1987, 5525 >>

ToothSin1 ==
    << -1987, 5525, 9801, 8335, 1987, -5525, -9801, -8335 >>

ToothCos2 ==
    << 9801, 5525, -1987, -8335, -9801, -5525, 1987, 8335 >>

ToothSin2 ==
    << 1987, 8335, 9801, 5525, -1987, -8335, -9801, -5525 >>

DotCos ==
    << 10000, 5000, -5000, -10000, -5000, 5000 >>

DotSin ==
    << 0, 8660, 8660, 0, -8660, -8660 >>

\* heart_points of a call: <<x, y>> in units of 1/heart_den(st)
heart_points_of(st, size) ==
    LET hx == IF st = APP THEN HeartDegX ELSE HeartRadX
        hy == IF st = APP THEN HeartDegY ELSE HeartRadY
        c == center(size) * heart_den(st)
    IN  [i \in 1..Len(hx) |-> <<c + hx[i] * heart_size(size), c + hy[i] * heart_size(size)>>]

shift(fpts, off) == [i \in 1..Len(fpts) |-> <<fpts[i][1] + off, fpts[i][2] + off>>]

shadow_offset(st, size) == IF st = APP THEN 2 ELSE Max(2, size \div 200)

shadow_color(st) == IF st = APP THEN <<0, 0, 0>> ELSE <<200, 200, 200>>

glyph_color(st) == IF st = APP THEN WHITE ELSE heart_color

\* how many of the heart's points the highlight takes: len(heart_points) // 3
highlight_len_all(n) == n

highlight_len(n) == n \div 3

highlight_points(st, size, fpts) ==
    shift(SubSeq(fpts, 1, highlight_len(Len(fpts))),
          -((shadow_offset(st, size) \div 2) * heart_den(st)))

\* gear of the beautiful style
gear_size(size) == size \div 6

gear_x(size) == center(size) + heart_size(size) \div 2 + gear_size(size) \div 2

gear_y(size) == center(size) - heart_size(size) \div 2 - gear_size(size) \div 2

gear_radius(size) == gear_size(size) \div 2

tooth(size, i) ==
    LET gx == gear_x(size) * Unit
        gy == gear_y(size) * Unit
        gr == gear_radius(size)
    IN  polygon(<< <<gx + (gr + 3) * ToothCos[i], gy + (gr + 3) * ToothSin[i]>>,
                   <<gx + gr * ToothCos1[i], gy + gr * ToothSin1[i]>>,
                   <<gx + gr * ToothCos2[i], gy + gr * ToothSin2[i]>> >>, Unit)

\* plus badge
plus_size(size) == size \div 8

plus_thickness(st, size) ==
    IF st = APP THEN Max(2, size \div 40) ELSE Max(3, size \div 60)

plus_x(st, size) ==
    IF st = APP THEN center(size) + heart_size(size) \div 2 + plus_size(size) \div 2
    ELSE center(size) + heart_size(size) \div 2

plus_y(st, size) ==
    IF st = APP THEN center(size) - heart_size(size) \div 2 - plus_size(size) \div 2
    ELSE center(size) + heart_size(size) \div 2

\* the circle under the plus sign, then its two bars
plus_shapes(st, size) ==
    LET x == plus_x(st, size)
        y == plus_y(st, size)
        ps == plus_size(size)
        t == plus_thickness(st, size) \div 2
        bg == ps \div 2 + 2
    IN  IF st = APP
        THEN << ellipse(x - ps, y - ps, x + ps, y + ps),
                rectangle(x - t, y - ps + 2, x + t, y + ps - 2),
                rectangle(x - ps + 2, y - t, x + ps - 2, y + t) >>
        ELSE << ellipse(x - bg, y - bg, x + bg, y + bg),
                rectangle(x - ps \div 2, y - t, x + ps \div 2, y + t),
                rectangle(x - t, y - ps \div 2, x + t, y + ps \div 2) >>

\* data dots of the beautiful style
dot_radius(size) == Max(2, size \div 100)

dot_distance(size) == heart_size(size) + 20

dot(size, i) ==
    LET dx == center(size) * Unit + dot_distance(size) * DotCos[i]
        dy == center(size) * Unit + dot_distance(size) * DotSin[i]
        r == dot_radius(size) * Unit
    IN  ellipse(Trunc(dx - r, Unit), Trunc(dy - r, Unit),
                Trunc(dx + r, Unit), Trunc(dy + r, Unit))

\* cross of the solid style: horizontal bar, vertical bar
cross_size(size) == size \div 3

cross_width(size) == Max(4, size \div 20)

cross_shapes(size) ==
    LET c == center(size)
        s == cross_size(size) \div 2
        w == cross_width(size) \div 2
    IN  << rectangle(c - s, c - w, c + s, c + w),
           rectangle(c - w, c - s, c + w, c + s) >>

\* a box Pillow's argument check refuses in its recent releases (x1 < x0 or
\* y1 < y0) and older releases draw
Inverted(shape) == shape.box[3] < shape.box[1] \/ shape.box[4] < shape.box[2]

-----------------------------------------------------------------------------
(* One call of a render function: its local variables and its steps *)

\* the locals of create_*_icon(size, output_path); pc is the next statement
NewFrame(size, output_path) ==
    [pc |-> "new", size |-> size, output_path |-> output_path,
     img |-> NoImage, mask |-> NoImage, final_img |-> NoImage,
     heart_points |-> <<>>, ndraw |-> 0, err |-> "none"]

NoFrame == [NewFrame(0, <<>>) EXCEPT !.pc = "idle"]

raise(f, err) == [f EXCEPT !.pc = "raised", !.err = err]

\* img = Image.new('RGB', (size, size), (255, 255, 255)): Pillow refuses a
\* negative size and accepts zero
image_new(st, f) ==
    IF f.size < 0 THEN raise(f, "ValueError")
    ELSE [f EXCEPT !.img = ImageNew("RGB", f.size, WHITE), !.pc = "gradient"]

\* for y in range(size): draw.line([(0, y), (size, y)], fill=color)
gradient(st, f) ==
    [f EXCEPT
        !.img = [f.img EXCEPT !.px = [p \in DOMAIN f.img.px |->
                    IF p[2] \in 0..(f.size - 1) /\ 0 <= p[1] /\ p[1] <= f.size
                    THEN row_color(st, p[2], f.size) ELSE f.img.px[p]]],
        !.ndraw = f.ndraw + f.size,
        !.pc = IF rounded(st) THEN "mask" ELSE "cross"]

\* mask = Image.new('L', ...); mask_draw.rounded_rectangle(box, radius, 255)
rounded_mask(st, f) ==
    LET b == mask_box(f.size)
    IN  [f EXCEPT
            !.mask = Draw(ImageNew("L", f.size, 0),
                          rounded_rectangle(b[1], b[2], b[3], b[4],
                                            corner_radius(st, f.size)), 255),
            !.ndraw = f.ndraw + 1,
            !.pc = "paste"]

\* final_img = Image.new('RGB', ..., background); final_img.paste(img, mask)
paste_final(st, f) ==
    [f EXCEPT
        !.final_img = paste(ImageNew("RGB", f.size, background(st)), f.img, f.mask),
        !.ndraw = f.ndraw + 1,
        !.pc = "points"]

\* the loop that fills heart_points
compute_points(st, f) ==
    [f EXCEPT !.heart_points = heart_points_of(st, f.size), !.pc = "shadow"]

\* draw.polygon(shadow_points, fill)
draw_shadow(st, f) ==
    [f EXCEPT
        !.final_img = Draw(f.final_img,
                           polygon(shift(f.heart_points,
                                         shadow_offset(st, f.size) * heart_den(st)),
                                   heart_den(st)),
                           shadow_color(st)),
        !.ndraw = f.ndraw + 1,
        !.pc = "heart"]

\* draw.polygon(heart_points, fill)
draw_heart(st, f) ==
    [f EXCEPT
        !.final_img = Draw(f.final_img, polygon(f.heart_points, heart_den(st)),
                           glyph_color(st)),
        !.ndraw = f.ndraw + 1,
        !.pc = IF st = APP THEN "plus" ELSE "highlight"]

\* if highlight_points: draw.polygon(highlight_points, fill=(82, 229, 119))
draw_highlight(st, f) ==
    LET hp == highlight_points(st, f.size, f.heart_points)
    IN  [f EXCEPT
            !.final_img = IF hp = <<>> THEN f.final_img
                          ELSE Draw(f.final_img, polygon(hp, heart_den(st)),
                                    <<82, 229, 119>>),
            !.ndraw = f.ndraw + (IF hp = <<>> THEN 0 ELSE 1),
            !.pc = "gear"]

\* the gear: background circle, eight teeth, inner circle
draw_gear(st, f) ==
    LET gx == gear_x(f.size)
        gy == gear_y(f.size)
        gr == gear_radius(f.size)
        ir == gr \div 2
        c1 == Draw(f.final_img, ellipse(gx - gr, gy - gr, gx + gr, gy + gr), WHITE)
        c2 == DrawAll(c1, [i \in 1..8 |-> tooth(f.size, i)], <<100, 100, 100>>)
        c3 == Draw(c2, ellipse(gx - ir, gy - ir, gx + ir, gy + ir), <<150, 150, 150>>)
    IN  [f EXCEPT !.final_img = c3, !.ndraw = f.ndraw + 10, !.pc = "plus"]

\* the plus badge: circle, then the two bars
draw_plus(st, f) ==
    LET s == plus_shapes(st, f.size)
        c1 == Draw(f.final_img, s[1], WHITE)
        c2 == DrawAll(c1, Tail(s), heart_color)
    IN  [f EXCEPT !.final_img = c2, !.ndraw = f.ndraw + 3,
                  !.pc = IF st = APP THEN "save" ELSE "dots"]

\* the six data dots; the fourth component of the fill is dropped on RGB
draw_dots(st, f) ==
    [f EXCEPT
        !.final_img = DrawAll(f.final_img, [i \in 1..6 |-> dot(f.size, i)], heart_color),
        !.ndraw = f.ndraw + 6,
        !.pc = "save"]

\* the cross of the solid style, drawn on img
draw_cross(st, f) ==
    [f EXCEPT !.img = DrawAll(f.img, cross_shapes(f.size), WHITE),
              !.ndraw = f.ndraw + 2,
              !.pc = "save"]

\* the image handed to save: img (converted to RGB if it is not) in the
\* solid style, final_img in the other two
saved_image(st, f) ==
    IF st = SOLID
    THEN IF f.img.mode # "RGB" THEN [f.img EXCEPT !.mode = "RGB"] ELSE f.img
    ELSE f.final_img

\* a file is created or overwritten with the content
write(fs, path, content) ==
    [p \in DOMAIN fs \cup {path} |-> IF p = path THEN content ELSE fs[p]]

\* what an encoder that failed after the file was opened leaves behind
CorruptFile == [w |-> 0, h |-> 0, mode |-> "corrupt", px |-> <<>>]

\* the statements of a call that cannot fail and have one outcome
step(st, f) ==
    CASE f.pc = "new" -> image_new(st, f)
      [] f.pc = "gradient" -> gradient(st, f)
      [] f.pc = "mask" -> rounded_mask(st, f)
      [] f.pc = "paste" -> paste_final(st, f)
      [] f.pc = "points" -> compute_points(st, f)
      [] f.pc = "shadow" -> draw_shadow(st, f)
      [] f.pc = "heart" -> draw_heart(st, f)
      [] f.pc = "highlight" -> draw_highlight(st, f)
      [] f.pc = "gear" -> draw_gear(st, f)
      [] f.pc = "plus" -> draw_plus(st, f)
      [] f.pc = "dots" -> draw_dots(st, f)
      [] f.pc = "cross" -> draw_cross(st, f)

\* the image a call with a catalog size hands to save
RECURSIVE run_to_save(_, _)
run_to_save(st, f) ==
    IF f.pc \in {"save", "raised"} THEN f ELSE run_to_save(st, step(st, f))

rendered(st, size) == saved_image(st, run_to_save(st, NewFrame(size, <<>>)))

-----------------------------------------------------------------------------
(* The statements of a call as actions on frame *)

\* what a statement of a call leaves alone, the file system apart
main_vars == <<style, main_pc, main_err, idx, run, fs0, prev, workers>>

ImageNewStep ==
    /\ frame.pc = "new"
    /\ frame' = step(style, frame)
    /\ UNCHANGED <<main_vars, dirs, files>>

DrawGradient ==
    /\ frame.pc = "gradient"
    /\ frame' = step(style, frame)
    /\ UNCHANGED <<main_vars, dirs, files>>

RoundedMask ==
    /\ frame.pc = "mask"
    /\ frame' = step(style, frame)
    /\ UNCHANGED <<main_vars, dirs, files>>

PasteFinal ==
    /\ frame.pc = "paste"
    /\ frame' = step(style, frame)
    /\ UNCHANGED <<main_vars, dirs, files>>

ComputePoints ==
    /\ frame.pc = "points"
    /\ frame' = step(style, frame)
    /\ UNCHANGED <<main_vars, dirs, files>>

DrawShadow ==
    /\ frame.pc = "shadow"
    /\ frame' = step(style, frame)
    /\ UNCHANGED <<main_vars, dirs, files>>

DrawHeart ==
    /\ frame.pc = "heart"
    /\ frame' = step(style, frame)
    /\ UNCHANGED <<main_vars, dirs, files>>

DrawHighlight ==
    /\ frame.pc = "highlight"
    /\ frame' = step(style, frame)
    /\ UNCHANGED <<main_vars, dirs, files>>

DrawGear ==
    /\ frame.pc = "gear"
    /\ frame' = step(style, frame)
    /\ UNCHANGED <<main_vars, dirs, files>>

DrawDots ==
    /\ frame.pc = "dots"
    /\ frame' = step(style, frame)
    /\ UNCHANGED <<main_vars, dirs, files>>

DrawCross ==
    /\ frame.pc = "cross"
    /\ frame' = step(style, frame)
    /\ UNCHANGED <<main_vars, dirs, files>>

\* the plus badge; a box with y1 < y0 (size 0 in create_app_icon) is drawn by
\* older Pillow releases and refused with ValueError by recent ones
DrawPlus ==
    /\ frame.pc = "plus"
    /\ \E refused \in {FALSE} \cup {\E i \in 1..3 : Inverted(plus_shapes(style, frame.size)[i])} :
          frame' = IF refused THEN raise(frame, "ValueError") ELSE step(style, frame)
    /\ UNCHANGED <<main_vars, dirs, files>>

\* image.save(output_path, 'PNG'): the file is opened for writing, then
\* encoded.  A missing directory fails the open.  A 0 x 0 image fails in the
\* encoder; the file opened for it is then removed again or left behind,
\* depending on the Pillow release (only removed if the open created it).
SaveImage ==
    /\ frame.pc = "save"
    /\ IF dirname(frame.output_path) \notin dirs
       THEN frame' = raise(frame, "FileNotFoundError") /\ UNCHANGED files
       ELSE IF frame.size = 0
            THEN /\ frame' = raise(frame, "SystemError")
                 /\ \E removed \in {FALSE} \cup {frame.output_path \notin DOMAIN files} :
                       files' = IF removed THEN files
                                ELSE write(files, frame.output_path, CorruptFile)
            ELSE /\ frame' = [frame EXCEPT !.pc = "returned"]
                 /\ files' = write(files, frame.output_path, saved_image(style, frame))
    /\ UNCHANGED <<main_vars, dirs>>

RenderStep ==
    \/ ImageNewStep
    \/ DrawGradient
    \/ RoundedMask
    \/ PasteFinal
    \/ ComputePoints
    \/ DrawShadow
    \/ DrawHeart
    \/ DrawHighlight
    \/ DrawGear
    \/ DrawPlus
    \/ DrawDots
    \/ DrawCross
    \/ SaveImage

-----------------------------------------------------------------------------
(* SpecRender: one call of a render function, for every size of CallSizes *)

EmptyFiles == [p \in {} |-> NoImage]

NoSnapshot == [dirs |-> {}, files |-> EmptyFiles, end |-> "none", err |-> "none"]

out_dir == <<"out">>

InitRender ==
    /\ style \in Styles
    /\ \E size \in CallSizes : frame = NewFrame(size, join(out_dir, "icon.png"))
    /\ dirs = {out_dir}
    /\ files = EmptyFiles
    /\ main_pc = "call"
    /\ main_err = "none"
    /\ idx = 0
    /\ run = 1
    /\ fs0 = [dirs |-> dirs, files |-> files]
    /\ prev = NoSnapshot
    /\ workers = <<>>

SpecRender == InitRender /\ [][RenderStep]_vars

-----------------------------------------------------------------------------
(* Spec: main() of a script, run up to MaxRuns times on one file system *)

\* the directories main creates before its loop: create_icons.py creates
\* icons_dir only, the other two scripts create both
created_dirs(st) == IF st = APP THEN <<icons_dir>> ELSE <<icons_dir, appiconset_dir>>

\* the os.makedirs calls of main, in order, stopping at the first error
RECURSIVE make_all(_, _)
make_all(ds, paths) ==
    IF paths = <<>> THEN [err |-> "none", dirs |-> ds]
    ELSE LET r == makedirs(ds, Head(paths))
         IN  IF r.err # "none" THEN r ELSE make_all(r.dirs, Tail(paths))

\* shutil.copy2(src, dst): dst gets the content of src
copy2_nothing(fs, src, dst) == fs

copy2(fs, src, dst) == write(fs, dst, fs[src])

\* a file of an earlier, different build of the icons, and a file the
\* scripts never write
StaleIcon == [w |-> 40, h |-> 40, mode |-> "RGBA", px |-> <<>>]

ContentsJson == [w |-> 0, h |-> 0, mode |-> "json", px |-> <<>>]

AllDirs(path) == {SubSeq(path, 1, n) : n \in 1..Len(path)}

\* the file systems a script is started on: nothing there, the resources
\* directory only, both directories, both directories with older files
StartFS ==
    { [dirs |-> {}, files |-> EmptyFiles],
      [dirs |-> AllDirs(icons_dir), files |-> EmptyFiles],
      [dirs |-> AllDirs(appiconset_dir), files |-> EmptyFiles],
      [dirs |-> AllDirs(appiconset_dir),
       files |-> write(write(EmptyFiles, join(icons_dir, "AppIcon-40.png"), StaleIcon),
                       join(appiconset_dir, "Contents.json"), ContentsJson)] }

Init ==
    /\ style \in Styles
    /\ fs0 \in StartFS
    /\ dirs = fs0.dirs
    /\ files = fs0.files
    /\ frame = NoFrame
    /\ main_pc = "makedirs"
    /\ main_err = "none"
    /\ idx = 1
    /\ run = 1
    /\ prev = NoSnapshot
    /\ workers = <<>>

\* os.makedirs(icons_dir, exist_ok=True) [; os.makedirs(appiconset_dir, ...)]
MakeDirs ==
    /\ main_pc = "makedirs"
    /\ LET r == make_all(dirs, created_dirs(style))
       IN  /\ dirs' = r.dirs
           /\ main_err' = r.err
           /\ main_pc' = IF r.err = "none" THEN "loop" ELSE "failed"
    /\ idx' = 1
    /\ UNCHANGED <<style, frame, files, run, fs0, prev, workers>>

\* for size, filename in ...: output_path = join(icons_dir, filename);
\* create_*_icon(size, output_path)
CallRender ==
    /\ main_pc = "loop"
    /\ idx <= Len(Catalog(style))
    /\ frame' = NewFrame(Catalog(style)[idx].size,
                         join(icons_dir, Catalog(style)[idx].filename))
    /\ main_pc' = "render"
    /\ UNCHANGED <<style, dirs, files, main_err, idx, run, fs0, prev, workers>>

\* the call is over.  An exception it raised ends main (there is no try).
\* Otherwise appiconset_path = join(appiconset_dir, filename) and
\* shutil.copy2(output_path, appiconset_path), which fails if the directory
\* of appiconset_path is missing.
CopyToIconset ==
    /\ main_pc = "render"
    /\ frame.pc \in {"returned", "raised"}
    /\ LET dst == join(appiconset_dir, Catalog(style)[idx].filename)
           e == IF frame.pc = "raised" THEN frame.err
                ELSE IF dirname(dst) \notin dirs THEN "FileNotFoundError"
                ELSE "none"
       IN  /\ main_err' = e
           /\ main_pc' = IF e = "none" THEN "loop" ELSE "failed"
           /\ idx' = IF e = "none" THEN idx + 1 ELSE idx
           /\ files' = IF e = "none" THEN copy2(files, frame.output_path, dst) ELSE files
    /\ frame' = NoFrame
    /\ UNCHANGED <<style, dirs, run, fs0, prev, workers>>

\* the loop is over: main prints its summary and returns
Finish ==
    /\ main_pc = "loop"
    /\ idx > Len(Catalog(style))
    /\ main_pc' = "done"
    /\ UNCHANGED <<style, frame, dirs, files, main_err, idx, run, fs0, prev, workers>>

\* the script is started again on the file system the last run left
Rerun ==
    /\ main_pc \in {"done", "failed"}
    /\ run < MaxRuns
    /\ prev' = [dirs |-> dirs, files |-> files, end |-> main_pc, err |-> main_err]
    /\ run' = run + 1
    /\ main_pc' = "makedirs"
    /\ main_err' = "none"
    /\ idx' = 1
    /\ frame' = NoFrame
    /\ UNCHANGED <<style, dirs, files, fs0, workers>>

Next ==
    \/ MakeDirs
    \/ CallRender
    \/ RenderStep
    \/ CopyToIconset
    \/ Finish
    \/ Rerun

Spec == Init /\ [][Next]_vars

-----------------------------------------------------------------------------
(* SpecPar: MaxPar iterations of a script's loop run side by side, after   *)
(* main has created its directories.  Each iteration is the loop body:     *)
(* the call (render and save), then the copy.                              *)

\* the pixel sizes of a script's catalog
catalog_sizes(st) == {Catalog(st)[i].size : i \in 1..Len(Catalog(st))}

\* the image every catalog size renders to, per style
RenderedTable ==
    [st \in Styles |-> [s \in catalog_sizes(st) |-> rendered(st, s)]]

InitPar ==
    /\ style \in Styles
    /\ fs0 \in StartFS
    /\ dirs = make_all(fs0.dirs, created_dirs(style)).dirs
    /\ files = fs0.files
    /\ frame = NoFrame
    /\ main_pc = "parallel"
    /\ main_err = "none"
    /\ idx = 0
    /\ run = 1
    /\ prev = NoSnapshot
    /\ \E W \in SUBSET (1..Len(Catalog(style))) :
          /\ Cardinality(W) = MaxPar
          /\ workers = [i \in W |-> [pc |-> "call", wrote |-> {}]]

\* create_*_icon(size, output_path) of iteration i
ParRender(i) ==
    /\ workers[i].pc = "call"
    /\ LET e == Catalog(style)[i]
           path == join(icons_dir, e.filename)
       IN  /\ files' = write(files, path, RenderedTable[style][e.size])
           /\ workers' = [workers EXCEPT ![i] = [pc |-> "copy", wrote |-> {path}]]
    /\ UNCHANGED <<style, frame, dirs, main_pc, main_err, idx, run, fs0, prev>>

\* shutil.copy2(output_path, appiconset_path) of iteration i
ParCopy(i) ==
    /\ workers[i].pc = "copy"
    /\ LET e == Catalog(style)[i]
           src == join(icons_dir, e.filename)
           dst == join(appiconset_dir, e.filename)
       IN  IF dirname(dst) \notin dirs
           THEN /\ workers' = [workers EXCEPT ![i].pc = "failed"]
                /\ UNCHANGED files
           ELSE /\ files' = copy2(files, src, dst)
                /\ workers' = [workers EXCEPT ![i] =
                                  [pc |-> "done", wrote |-> workers[i].wrote \cup {dst}]]
    /\ UNCHANGED <<style, frame, dirs, main_pc, main_err, idx, run, fs0, prev>>

NextPar ==
    \/ \E i \in DOMAIN workers : ParRender(i)
    \/ \E i \in DOMAIN workers : ParCopy(i)

SpecPar == InitPar /\ [][NextPar]_vars

\* the loop body run for the entries of W one after the other, in catalog
\* order, stopping at the first failing copy
RECURSIVE seq_run(_, _, _, _)
seq_run(st, fs, ds, W) ==
    IF W = {} THEN fs
    ELSE LET i == CHOOSE k \in W : \A m \in W : k <= m
             e == Catalog(st)[i]
             src == join(icons_dir, e.filename)
             dst == join(appiconset_dir, e.filename)
             saved == write(fs, src, RenderedTable[st][e.size])
         IN  IF dirname(dst) \notin ds THEN saved
             ELSE seq_run(st, copy2(saved, src, dst), ds, W \ {i})

-----------------------------------------------------------------------------
(* Observations used by the properties *)

Corners(size) ==
    { <<0, 0>>, <<size - 1, 0>>, <<0, size - 1>>, <<size - 1, size - 1>> }

TopRow(size) == {p \in Probes(size) : p[2] = 0}

BottomRow(size) == {p \in Probes(size) : p[2] = size - 1}

Within(c1, c2, tol) == \A k \in 1..3 : Abs(c1[k] - c2[k]) <= tol

\* the call of SpecRender has returned and its file is there
Returned == frame.pc = "returned" /\ frame.output_path \in DOMAIN files

SavedFile == files[frame.output_path]

\* smallest and largest coordinate c (1: x, 2: y) of a list of points
Lowest(pts, c) ==
    CHOOSE v \in {pts[i][c] : i \in 1..Len(pts)} : \A j \in 1..Len(pts) : v <= pts[j][c]

Highest(pts, c) ==
    CHOOSE v \in {pts[i][c] : i \in 1..Len(pts)} : \A j \in 1..Len(pts) : v >= pts[j][c]

\* twice the centre of the bounding box of heart_points along c, in units
\* of 1/heart_den(style)
HeartBox2(c) == Lowest(frame.heart_points, c) + Highest(frame.heart_points, c)

\* the same for the two bars of the cross, in pixels
CrossBox2(c) ==
    LET s == cross_shapes(frame.size)
    IN  Min(s[1].box[c], s[2].box[c]) + Max(s[1].box[c + 2], s[2].box[c + 2])

\* the heart has been computed (heart styles) / the cross drawn (solid)
GlyphThere ==
    /\ frame.size \in CatalogSizes
    /\ IF style = SOLID THEN frame.pc \in {"save", "returned"}
       ELSE frame.heart_points # <<>>

\* the glyph's bounding box is centred within one pixel of size/2 along c
GlyphCentred(c) ==
    IF style = SOLID THEN Abs(CrossBox2(c) - frame.size) <= 2
    ELSE Abs(HeartBox2(c) - frame.size * heart_den(style)) <= 2 * heart_den(style)

\* the layers create_beautiful_app_icon draws after the heart
later_shapes(size, fpts) ==
    << polygon(highlight_points(BEAUTIFUL, size, fpts), heart_den(BEAUTIFUL)),
       ellipse(gear_x(size) - gear_radius(size), gear_y(size) - gear_radius(size),
               gear_x(size) + gear_radius(size), gear_y(size) + gear_radius(size)) >>
    \o [i \in 1..8 |-> tooth(size, i)]
    \o plus_shapes(BEAUTIFUL, size)
    \o [i \in 1..6 |-> dot(size, i)]

\* the pixels next to the centre, the centre included
Around(size) == {<<size \div 2 + dx, size \div 2 + dy>> : dx \in -1..1, dy \in -1..1}

\* the files of a directory, by name
NamesIn(directory) == {p[Len(p)] : p \in {q \in DOMAIN files : dirname(q) = directory}}

CatalogNames(st) == {Catalog(st)[i].filename : i \in 1..Len(Catalog(st))}

AllEnded == \A i \in DOMAIN workers : workers[i].pc \in {"done", "failed"}

-----------------------------------------------------------------------------
(* C1 *)

\* C1: for every catalog size and each of the three render functions the
\* call returns, and the saved image is size x size and in mode RGB
C1_SavedImageIsSquareRGB ==
    frame.size \in CatalogSizes =>
        /\ frame.pc # "raised"
        /\ frame.pc = "returned" =>
              /\ frame.output_path \in DOMAIN files
              /\ SavedFile.w = frame.size
              /\ SavedFile.h = frame.size
              /\ SavedFile.mode = "RGB"

W_C1_MaskedStyleSaved ==
    Returned /\ style = BEAUTIFUL /\ frame.size = 154 /\ SavedFile.w = 154

(* C2 *)

\* C2: in the two styles with rounded corners, for every catalog size, the
\* four corner pixels of the saved image have the flat background colour
CEX_C2_CornersAreBackground ==
    (Returned /\ rounded(style) /\ frame.size \in CatalogSizes) =>
        \A p \in Corners(frame.size) : SavedFile.px[p] = background(style)

(* C3 *)

\* the gradient canvas as the loop has just filled it
GradientDone == frame.size \in CatalogSizes /\ frame.pc \in {"mask", "cross"}

\* C3 as stated: top row within 1 of the start colour and bottom row within
\* 1 of the end colour, for every catalog size and style
CEX_C3_EndRowsWithinOne ==
    GradientDone =>
        /\ \A p \in TopRow(frame.size) : Within(frame.img.px[p], gradient_start(style), 1)
        /\ \A p \in BottomRow(frame.size) : Within(frame.img.px[p], gradient_end(style), 1)

\* C3 amended: the top row is the start colour exactly; the bottom row is
\* end + trunc((start - end) / size) per channel (create_app_icon, solid),
\* which is within 1 of the end colour for every size from 40 on; in the
\* beautiful style the bottom row is within 1 of (229, 242, 229) throughout
C3_GradientRows ==
    GradientDone =>
        /\ \A p \in TopRow(frame.size) : frame.img.px[p] = gradient_start(style)
        /\ \A p \in BottomRow(frame.size) :
              /\ style # BEAUTIFUL =>
                    \A k \in 1..3 :
                        frame.img.px[p][k] = gradient_end(style)[k]
                            + (gradient_start(style)[k] - gradient_end(style)[k]) \div frame.size
              /\ (style = BEAUTIFUL \/ frame.size >= 40) =>
                    Within(frame.img.px[p], gradient_end(style), 1)

W_C3_SmallIconBottomRow ==
    /\ GradientDone /\ style = APP /\ frame.size = 20
    /\ frame.img.px[<<10, 19>>] = <<34, 142, 36>>
    /\ frame.img.px[<<10, 0>>] = <<52, 199, 89>>

(* C4 *)

\* C4 as stated: the centre of the glyph's bounding box is within one pixel
\* of (size/2, size/2) in x and in y
CEX_C4_GlyphBoxCentred == GlyphThere => GlyphCentred(1) /\ GlyphCentred(2)

\* C4 amended: the bounding box is centred within one pixel in x; in y it
\* is for the cross, while the heart's box is centred between 2.5 k and
\* 2.6 k below size // 2 (k = heart_size / 32 or / 20), which is within one
\* pixel of size/2 for the sizes 20 and 29 only
C4_GlyphBoxOffset ==
    GlyphThere =>
        /\ GlyphCentred(1)
        /\ style = SOLID => GlyphCentred(2)
        /\ style # SOLID =>
              LET off2 == HeartBox2(2) - 2 * center(frame.size) * heart_den(style)
              IN  /\ 25 * heart_size(frame.size) * Unit <= 5 * off2
                  /\ 5 * off2 <= 26 * heart_size(frame.size) * Unit
                  /\ GlyphCentred(2) <=> frame.size \in {20, 29}

W_C4_HeartBoxLow ==
    /\ GlyphThere /\ style = APP /\ frame.size = 1024 /\ frame.pc = "returned"
    /\ HeartBox2(2) > (1024 + 2 * 27) * heart_den(APP)

(* C5 *)

\* C5: a call with a zero or negative size draws nothing, writes no file
\* and does not return normally
CEX_C5_InvalidSizeFailsFirst ==
    frame.size <= 0 =>
        /\ frame.ndraw = 0
        /\ frame.pc # "returned"
        /\ frame.output_path \notin DOMAIN files

(* C6 *)

\* C6: create_beautiful_app_icon(120): from the heart polygon on, through
\* highlight, gear, plus and dots, the centre pixel (60, 60) has the heart
\* colour, and so has the saved file, whose corners have the background
\* colour; the centre and its eight neighbours lie inside the heart polygon
\* and outside every later layer
C6_CentreStaysHeart ==
    (style = BEAUTIFUL /\ frame.size = 120) =>
        /\ frame.pc \in {"highlight", "gear", "plus", "dots", "save", "returned"} =>
              /\ frame.final_img.px[<<60, 60>>] = heart_color
              /\ \A p \in Around(120) :
                    /\ PolygonCovers(polygon(frame.heart_points, heart_den(style)).pts,
                                     p[1], p[2])
                    /\ \A i \in 1..Len(later_shapes(120, frame.heart_points)) :
                          ~Covers(later_shapes(120, frame.heart_points)[i], p[1], p[2])
        /\ frame.pc # "raised"
        /\ frame.pc = "returned" =>
              /\ frame.output_path \in DOMAIN files
              /\ SavedFile.w = 120 /\ SavedFile.h = 120 /\ SavedFile.mode = "RGB"
              /\ SavedFile.px[<<60, 60>>] = <<52, 199, 89>>
              /\ \A p \in Corners(120) : SavedFile.px[p] = <<248, 249, 250>>

W_C6_Icon120Saved ==
    /\ Returned /\ style = BEAUTIFUL /\ frame.size = 120
    /\ frame.ndraw = 120 + 2 + 3 + 10 + 3 + 6
    /\ SavedFile.px[<<60, 60>>] = heart_color

(* C7 *)

\* C7: rendering depends on (size, style) only: the entries of one catalog
\* that share a size get identical files, and a re-run of a script writes
\* every file again with the content it had, so that at each step of the
\* re-run the files and directories are those the run before left, and it
\* ends as the run before ended
C7_RerunChangesNothing ==
    /\ run > 1 =>
          /\ files = prev.files
          /\ dirs = prev.dirs
          /\ main_pc \in {"done", "failed"} =>
                main_pc = prev.end /\ main_err = prev.err
    /\ main_pc = "done" =>
          \A i, j \in 1..Len(Catalog(style)) :
              Catalog(style)[i].size = Catalog(style)[j].size =>
                  /\ files[join(icons_dir, Catalog(style)[i].filename)]
                        = files[join(icons_dir, Catalog(style)[j].filename)]
                  /\ files[join(icons_dir, Catalog(style)[i].filename)]
                        = rendered(style, Catalog(style)[i].size)

W_C7_SecondRunDone ==
    /\ run = 2 /\ main_pc = "done" /\ prev.end = "done"
    /\ join(icons_dir, "AppIcon-1024.png") \in DOMAIN files

(* C8 *)

\* the run did not inherit files
FreshRun == run = 1 /\ fs0.files = EmptyFiles

\* C8 as stated: when the loop has completed, each directory holds exactly
\* one file per requested size
CEX_C8_OneFilePerSize ==
    (main_pc = "done" /\ FreshRun) =>
        /\ Cardinality(NamesIn(icons_dir)) = Cardinality(catalog_sizes(style))
        /\ Cardinality(NamesIn(appiconset_dir)) = Cardinality(catalog_sizes(style))

\* C8 amended: a catalog file is in the icon-set directory only if the file
\* of that name is in the resources directory, with the same content; the
\* entries are done in catalog order; and when the loop has completed each
\* directory holds one file per catalog entry (two entries may share a
\* size), of the entry's size, same names and same content in both
C8_WriteThenCopyPerEntry ==
    /\ \A n \in CatalogNames(style) :
          join(appiconset_dir, n) \in DOMAIN files =>
              /\ join(icons_dir, n) \in DOMAIN files
              /\ files[join(icons_dir, n)] = files[join(appiconset_dir, n)]
    /\ (FreshRun /\ main_pc \in {"loop", "render", "done"}) =>
          /\ NamesIn(appiconset_dir) = {Catalog(style)[i].filename : i \in 1..(idx - 1)}
          /\ NamesIn(icons_dir) \in
                { {Catalog(style)[i].filename : i \in 1..(idx - 1)},
                  {Catalog(style)[i].filename : i \in 1..Min(idx, Len(Catalog(style)))} }
    /\ main_pc = "done" =>
          /\ \A i \in 1..Len(Catalog(style)) :
                LET e == Catalog(style)[i]
                IN  /\ join(icons_dir, e.filename) \in DOMAIN files
                    /\ join(appiconset_dir, e.filename) \in DOMAIN files
                    /\ files[join(icons_dir, e.filename)].w = e.size
                    /\ files[join(icons_dir, e.filename)].h = e.size
                    /\ files[join(appiconset_dir, e.filename)]
                          = files[join(icons_dir, e.filename)]
          /\ FreshRun =>
                /\ NamesIn(icons_dir) = CatalogNames(style)
                /\ NamesIn(appiconset_dir) = CatalogNames(style)
                /\ Cardinality(NamesIn(icons_dir)) = Len(Catalog(style))

W_C8_LoopCompleted ==
    /\ main_pc = "done" /\ FreshRun /\ style = BEAUTIFUL
    /\ Cardinality(NamesIn(appiconset_dir)) = 15
    /\ Cardinality(catalog_sizes(style)) = 13

(* C10 *)

\* C10: started where neither directory exists, main has created both
\* before it writes, and no write or copy fails for a missing directory
CEX_C10_BothDirectoriesCreated ==
    (fs0.dirs = {} /\ main_pc # "makedirs") =>
        /\ {icons_dir, appiconset_dir} \subseteq dirs
        /\ main_err # "FileNotFoundError"

(* C9 *)

=============================================================================
